---- MODULE Spec2Model ----
(***************************************************************************)
(* Model of the tool mcp_powerdrill_create_data_source_from_local_file:    *)
(* the chunked upload of a local file (initiate, read + PUT of each part,  *)
(* complete, create data source) followed by the status polling loop.      *)
(* One action per resolution of an await of the handler.                   *)
(***************************************************************************)
EXTENDS Integers, Sequences, FiniteSets, TLC

\* ---- bounds of the model ------------------------------------------------
MaxFileSize == 3
MaxChunk == 2
MaxParts == 2
MaxPartSize == 2

\* ---- program constants --------------------------------------------------
\* pollDataSourceStatus(datasetId, dataSourceId, maxAttempts = 20, ...)
maxAttempts == 20

Undefined == "undefined"
Quote == "\""

dataset_id == "dset-1"

\* args.file_path, as its path segments
file_path == <<"tmp", "data.csv">>

VARIABLES
    pc,               \* the await the handler is suspended at, or "start" / "done"
    fileExists,       \* fs.existsSync(file_path)
    userId,           \* config.userId: POWERDRILL_USER_ID, or '' when not set
    projectApiKey,    \* config.projectApiKey: POWERDRILL_PROJECT_API_KEY, or ''
    fileSize,         \* stats.size
    chunk_size,       \* args.chunk_size
    file_name,        \* args.file_name (Undefined when the caller gives none)
    initResp,         \* initUploadResponse (<<>> until received)
    upload_id, file_object_key, part_items,   \* destructured initUploadResponse.data
    idx,              \* position of the for..of loop in part_items
    range,            \* [startByte, endByte] of the part being read / PUT
    partEtags,        \* partEtags
    completeKey,      \* completeUploadResponse.data.file_object_key
    dataSourceId,     \* createDataSourceResponse.data.id
    attempts,         \* attempts of pollDataSourceStatus
    reads,            \* log: byte ranges handed to readFileChunk
    puts,             \* log: PUT requests issued
    initReqs, completeReqs, createReqs,       \* log: requests issued to the API
    apiRequests,      \* the requests sent through the client's axios instance
    putResp,          \* the last PUT response received (<<>> or <<resp>>)
    completeResp,     \* completeUploadResponse (<<>> until received)
    createResp,       \* createDataSourceResponse (<<>> until received)
    inflight,         \* number of remote requests issued and not yet settled
    fetches,          \* number of client.getDataSource calls issued
    waits,            \* number of setTimeout waits started
    statusLog,        \* the status response being handled (<<>> while a fetch is awaited)
    results,          \* results returned by the handler to the protocol server
    thrown,           \* TRUE iff an exception escaped the handler
    failure           \* the step that threw, <<>> or <<[step, part]>>

\* the other tool handlers of the server (mcp_powerdrill_list_datasets,
\* mcp_powerdrill_create_job)
VARIABLES
    call,             \* the tool invoked and its arguments
    tpc,              \* "called", "awaiting" (the client's request) or "returned"
    toolReqs,         \* log: requests the handler sent through the client
    toolResp,         \* the API response received (<<>> or <<resp>>)
    toolResult        \* the result returned to the protocol server (<<>> or <<result>>)

toolVars == <<call, tpc, toolReqs, toolResp, toolResult>>

\* two invocations of the upload handler running interleaved
VARIABLES
    ipc,              \* per invocation: the await it is suspended at
    locals,           \* the handler's local variables, per scope they live in
    given,            \* per invocation: what the remote API handed to it
    sentBy,           \* per invocation: what it sent in its completion call and polled
    fresh             \* the number of identifiers the remote API has issued

pairVars == <<ipc, locals, given, sentBy, fresh>>

\* the state of the handlers a step of this handler leaves alone
otherHandlers == <<toolVars, pairVars>>

uploadVars == <<pc, fileExists, userId, projectApiKey, fileSize, chunk_size, file_name, initResp,
          upload_id, file_object_key, part_items, idx, range, partEtags,
          completeKey, dataSourceId, attempts, reads, puts, initReqs,
          completeReqs, createReqs, apiRequests, putResp, completeResp, createResp,
          inflight, fetches, waits, statusLog, results, thrown, failure>>

vars == <<uploadVars, toolVars, pairVars>>

\* ---- values the environment can produce ---------------------------------
FileSizes == 0..MaxFileSize

\* chunk_size: z.number() accepts every number, also zero and negative ones
ChunkSizes == (-1)..MaxChunk

\* file_name: z.string().optional() accepts no value, the empty string, a name
FileNames == {Undefined, "", "custom.csv"}

\* path.basename(file_path)
Basename(path) == path[Len(path)]

\* faulty variant of Truthy: only a missing string is falsy
TruthyDefinedOnly(str) == str # Undefined

\* a string counts as true in `a || b` unless it is undefined or empty
Truthy(str) == str # Undefined /\ str # ""

\* the environment sets each credential or leaves it out (config falls back to '')
UserIds == {"", "user-1"}
ApiKeys == {"", "pk-1"}

\* faulty variant of hasCredentials: only the user id is checked
hasCredentialsUserOnly == Truthy(userId)

\* PowerdrillClient.constructor does not throw:
\* !(!this.config.userId || !this.config.projectApiKey)
hasCredentials == Truthy(userId) /\ Truthy(projectApiKey)

\* const actualFileName = file_name || path.basename(file_path)
actualFileName == IF Truthy(file_name) THEN file_name ELSE Basename(file_path)

\* the orders in which the server lists parts 1..n: ascending or descending
Orders(n) == {[i \in 1..n |-> i], [i \in 1..n |-> n + 1 - i]}

\* lists of n parts numbered 1..n, listed in one of these orders
PartListsOf(n) ==
    {[i \in 1..n |-> [number |-> p[i], size |-> s[i], upload_url |-> p[i]]] :
        p \in Orders(n), s \in [1..n -> 1..MaxPartSize]}

RECURSIVE SumSizes(_)
SumSizes(items) == IF items = <<>> THEN 0 ELSE Head(items).size + SumSizes(Tail(items))

\* part_items of an initiation response: the server splits the file_size of
\* the request into parts, so the sizes sum to the file size
PartLists ==
    {items \in UNION {PartListsOf(n) : n \in 0..MaxParts} : SumSizes(items) = fileSize}

Min(a, b) == IF a < b THEN a ELSE b

\* ---- responses of the collaborators -------------------------------------
\* what `await client.initiateMultipartUpload(...)` can resolve to (response.data
\* of the POST) or reject with
NoInitData == [upload_id |-> Undefined, file_object_key |-> Undefined,
               hasParts |-> FALSE, part_items |-> <<>>]

InitResponses ==
    {[throws |-> TRUE, code |-> 0, hasData |-> FALSE, data |-> NoInitData]}
    \cup {[throws |-> FALSE, code |-> c, hasData |-> FALSE, data |-> NoInitData] : c \in {0, 1}}
    \cup {[throws |-> FALSE, code |-> 1, hasData |-> TRUE,
           data |-> [upload_id |-> "upload-1", file_object_key |-> "key-1",
                     hasParts |-> TRUE, part_items |-> <<>>]]}
    \cup {[throws |-> FALSE, code |-> 0, hasData |-> TRUE,
           data |-> [upload_id |-> "upload-1", file_object_key |-> "key-1",
                     hasParts |-> FALSE, part_items |-> <<>>]]}
    \cup {[throws |-> FALSE, code |-> 0, hasData |-> TRUE,
           data |-> [upload_id |-> "upload-1", file_object_key |-> "key-1",
                     hasParts |-> TRUE, part_items |-> items]] : items \in PartLists}
    \cup {[throws |-> FALSE, code |-> 0, hasData |-> TRUE,
           data |-> [upload_id |-> Undefined, file_object_key |-> "key-1",
                     hasParts |-> TRUE, part_items |-> items]] :
              items \in {l \in PartLists : Len(l) <= 1}}

\* what `await axios.put(url, chunk, ...)` can resolve to or reject with
PutResponses ==
    {[throws |-> TRUE, hasEtag |-> FALSE, etag |-> <<>>],
     [throws |-> FALSE, hasEtag |-> FALSE, etag |-> <<>>],
     [throws |-> FALSE, hasEtag |-> TRUE, etag |-> <<Quote, "e", Quote>>],
     [throws |-> FALSE, hasEtag |-> TRUE, etag |-> <<"e">>]}

CompleteResponses ==
    {[throws |-> TRUE, code |-> 0, hasData |-> FALSE, file_object_key |-> Undefined]}
    \cup {[throws |-> FALSE, code |-> c, hasData |-> FALSE, file_object_key |-> Undefined] : c \in {0, 1}}
    \cup {[throws |-> FALSE, code |-> 1, hasData |-> TRUE, file_object_key |-> "key-1"]}
    \cup {[throws |-> FALSE, code |-> 0, hasData |-> TRUE, file_object_key |-> k] :
              k \in {"key-1", "key-2"}}

CreateResponses ==
    {[throws |-> TRUE, code |-> 0, hasData |-> FALSE, id |-> Undefined]}
    \cup {[throws |-> FALSE, code |-> c, hasData |-> FALSE, id |-> Undefined] : c \in {0, 1}}
    \cup {[throws |-> FALSE, code |-> 1, hasData |-> TRUE, id |-> "dsource-1"]}
    \cup {[throws |-> FALSE, code |-> 0, hasData |-> TRUE, id |-> "dsource-1"]}

\* the data source record of a status response
NoRecord == [status |-> Undefined, name |-> Undefined, type |-> Undefined, size |-> 0]
Statuses == {"synching", "synched", "invalid", "queued", Undefined}
DataSourceRecords ==
    {[status |-> st, name |-> "data.csv", type |-> "FILE", size |-> fileSize] :
        st \in Statuses}
    \cup {[status |-> "synched", name |-> "renamed.csv", type |-> "FILE",
           size |-> fileSize + 1]}

StatusResponses ==
    {[throws |-> TRUE, code |-> 0, hasData |-> FALSE, data |-> NoRecord]}
    \cup {[throws |-> FALSE, code |-> c, hasData |-> FALSE, data |-> NoRecord] : c \in {0, 1}}
    \cup {[throws |-> FALSE, code |-> 1, hasData |-> TRUE, data |-> r] :
              r \in {d \in DataSourceRecords : d.status = "synched" /\ d.name = "data.csv"}}
    \cup {[throws |-> FALSE, code |-> 0, hasData |-> TRUE, data |-> r] : r \in DataSourceRecords}

\* ---- errors and results --------------------------------------------------
Err(name, message) == [name |-> name, message |-> message]

AxiosError == Err("AxiosError", "Request failed")

\* faulty variant of ErrorResult: the cause's message is replaced by a fixed text
ErrorResultGeneric(error) ==
    [isError |-> TRUE,
     error |-> <<"Error creating data source from local file: ", "upload failed">>,
     errorType |-> "UnknownError"]

\* the catch block of the handler: the result built from the caught error
ErrorResult(error) ==
    [isError |-> TRUE,
     error |-> <<"Error creating data source from local file: ", error.message>>,
     errorType |-> IF error.name = Undefined THEN "UnknownError" ELSE error.name]

\* faulty variant of SuccessPayload: name and size taken from the local file instead
\* of the final status record
SuccessPayloadFromFile(finalStatus) ==
    [isError |-> FALSE,
     dataset_id |-> dataset_id,
     data_source |-> [id |-> dataSourceId,
                      name |-> actualFileName,
                      type |-> finalStatus.data.type,
                      status |-> finalStatus.data.status,
                      size |-> fileSize],
     file |-> [name |-> actualFileName, size |-> fileSize, object_key |-> file_object_key]]

\* the success payload built after pollDataSourceStatus returned finalStatus
SuccessPayload(finalStatus) ==
    [isError |-> FALSE,
     dataset_id |-> dataset_id,
     data_source |-> [id |-> dataSourceId,
                      name |-> finalStatus.data.name,
                      type |-> finalStatus.data.type,
                      status |-> finalStatus.data.status,
                      size |-> finalStatus.data.size],
     file |-> [name |-> actualFileName, size |-> fileSize, object_key |-> file_object_key]]

\* ---- the pure steps of the handler ---------------------------------------
\* const startByte = (part.number - 1) * chunk_size
StartByte(part) == (part.number - 1) * chunk_size

\* faulty variant of EndByte: a full chunk is read for every part
EndByteFullChunk(part) == StartByte(part) + chunk_size - 1

\* const endByte = Math.min(startByte + part.size - 1, fileSize - 1)
EndByte(part) == Min(StartByte(part) + part.size - 1, fileSize - 1)

\* faulty variant of StripQuotes: the quotes are kept
StripQuotesKept(s) == s

\* etag.replace(/"/g, '')
StripQuotes(s) == SelectSeq(s, LAMBDA c : c # Quote)

\* faulty variant of EtagOf: a placeholder stands in for a missing header
EtagOfPlaceholder(resp) == StripQuotes(IF resp.hasEtag THEN resp.etag ELSE <<"none">>)

\* uploadFileChunk: response.headers.etag || '', quotes removed
EtagOf(resp) == StripQuotes(IF resp.hasEtag THEN resp.etag ELSE <<>>)

\* response.code !== 0 || !response.data
InvalidResponseCodeOnly(resp) == resp.code # 0

InvalidResponse(resp) == resp.code # 0 \/ ~resp.hasData

\* faulty variant of KeepPolling: off by one
KeepPollingOffByOne(a) == a <= maxAttempts

\* while (attempts < maxAttempts)
KeepPolling(a) == a < maxAttempts

\* faulty variant of StatusError: the code of the status response is not looked at
StatusErrorIgnored(response) == FALSE

\* pollDataSourceStatus: if (response.code !== 0)
StatusError(response) == response.code # 0

\* faulty variant of IsInvalid: every status but 'synching' counts as a failure
IsInvalidUnlessSynching(resp) == resp.data.status # "synching"

\* faulty variants of IsSynched / IsInvalid: the status is compared with another word
IsSynchedTypo(resp) == resp.data.status = "synced"
IsInvalidTypo(resp) == resp.data.status = "failed"

\* response.data.status === 'synched' / === 'invalid'
IsSynched(resp) == resp.data.status = "synched"
IsInvalid(resp) == resp.data.status = "invalid"

\* faulty variant of Settled: the handler goes on without awaiting
SettledNever(n) == n

\* faulty variant of NextIndex: the loop stays on the same part
NextIndexStuck(i) == i

\* `await`: the handler resumes only once the awaited request has settled
Settled(n) == n - 1

\* for (const part of part_items): the position after position i
NextIndex(i) == i + 1

\* faulty variant of FileMissing: the file is never checked
FileMissingUnchecked == FALSE

\* if (!fs.existsSync(file_path))
FileMissing == ~fileExists

\* fs.createReadStream(filePath, {start, end}) accepts the range
ValidRange(r) == 0 <= r.start /\ r.start <= r.end

\* ---- state after the tool has been invoked -------------------------------
UploadStart ==
    /\ pc = "start"
    /\ initResp = <<>>
    /\ upload_id = Undefined
    /\ file_object_key = Undefined
    /\ part_items = <<>>
    /\ idx = 0
    /\ range = [start |-> 0, end |-> 0]
    /\ partEtags = <<>>
    /\ completeKey = Undefined
    /\ dataSourceId = Undefined
    /\ attempts = 0
    /\ reads = <<>>
    /\ puts = <<>>
    /\ initReqs = <<>>
    /\ completeReqs = <<>>
    /\ createReqs = <<>>
    /\ apiRequests = {}
    /\ putResp = <<>>
    /\ completeResp = <<>>
    /\ createResp = <<>>
    /\ inflight = 0
    /\ fetches = 0
    /\ waits = 0
    /\ statusLog = <<>>
    /\ results = <<>>
    /\ thrown = FALSE
    /\ failure = <<>>

\* the upload tool is invoked with any file, credentials and arguments
UploadInit ==
    /\ fileExists \in BOOLEAN
    /\ userId \in UserIds
    /\ projectApiKey \in ApiKeys
    /\ fileSize \in FileSizes
    /\ fileExists = FALSE => fileSize = 0
    /\ chunk_size \in ChunkSizes
    /\ file_name \in FileNames
    /\ UploadStart

\* the upload tool is not the one invoked
UploadIdle ==
    /\ fileExists = FALSE
    /\ fileSize = 0
    /\ chunk_size = 1
    /\ file_name = Undefined
    /\ UploadStart

\* no other tool is invoked
NoCall == [tool |-> "none", hasLimit |-> FALSE, limit |-> 0, question |-> Undefined,
           dataset_id |-> Undefined, session_id |-> Undefined]

ToolIdle ==
    /\ call = NoCall
    /\ tpc = "idle"
    /\ toolReqs = <<>>
    /\ toolResp = <<>>
    /\ toolResult = <<>>

\* no pair of interleaved invocations is running
PairIdle ==
    /\ ipc = <<>>
    /\ locals = <<>>
    /\ given = <<>>
    /\ sentBy = <<>>
    /\ fresh = 0

Init == UploadInit /\ ToolIdle /\ PairIdle

inputs == <<fileExists, userId, projectApiKey, fileSize, chunk_size, file_name>>
initData == <<initResp, upload_id, file_object_key, part_items>>
loopState == <<idx, range, partEtags, reads, puts>>
pollState == <<attempts, fetches, waits, statusLog>>
outcome == <<results, thrown, failure>>

\* the awaits of a remote request
RemoteAwaits == {"init", "put", "complete", "create", "poll"}

\* 1 iff the step ends by issuing a remote request and awaiting it
Issued == IF pc' \in RemoteAwaits THEN 1 ELSE 0

\* a request of the client: axios.create sets the x-pd-api-key header, and each
\* method puts this.config.userId in the query (GET) or in the body (POST)
ApiRequest(method, path) ==
    [method |-> method,
     path |-> path,
     user_id_in |-> IF method = "GET" THEN "query" ELSE "body",
     user_id |-> userId,
     x_pd_api_key |-> projectApiKey]

\* faulty variant of Sent: the catch block sends an abort request
SentWithAbort ==
    CASE pc' = "init" -> {ApiRequest("POST", "/file/init-multipart-upload")}
      [] pc' = "complete" -> {ApiRequest("POST", "/file/complete-multipart-upload")}
      [] pc' = "create" -> {ApiRequest("POST", "/datasets/{id}/datasources")}
      [] pc' = "poll" -> {ApiRequest("GET", "/datasets/{id}/datasources/{id}")}
      [] pc' = "done" -> {ApiRequest("POST", "/file/abort-multipart-upload")}
      [] OTHER -> {}

\* the request of the client the step ends by sending, if any
Sent ==
    CASE pc' = "init" -> {ApiRequest("POST", "/file/init-multipart-upload")}
      [] pc' = "complete" -> {ApiRequest("POST", "/file/complete-multipart-upload")}
      [] pc' = "create" -> {ApiRequest("POST", "/datasets/{id}/datasources")}
      [] pc' = "poll" -> {ApiRequest("GET", "/datasets/{id}/datasources/{id}")}
      [] OTHER -> {}

\* faulty variant of Catch: the error is rethrown instead of being turned into a result
CatchRethrows(error, step, part) ==
    /\ pc' = "done"
    /\ thrown' = TRUE
    /\ failure' = <<[step |-> step, part |-> part]>>
    /\ UNCHANGED results

\* step and part record which step threw (part = 0: not a part upload)
Catch(error, step, part) ==
    /\ pc' = "done"
    /\ results' = Append(results, ErrorResult(error))
    /\ failure' = <<[step |-> step, part |-> part]>>
    /\ UNCHANGED thrown

\* return { content: [...] } after polling
ReturnSuccess(finalStatus) ==
    /\ pc' = "done"
    /\ results' = Append(results, SuccessPayload(finalStatus))
    /\ UNCHANGED <<thrown, failure>>

\* the handler up to its first remote call: file check, client construction,
\* then the initiate request is issued
Start ==
    /\ pc = "start"
    /\ IF FileMissing
       THEN Catch(Err("Error", "File not found"), "file", 0) /\ UNCHANGED initReqs
       ELSE IF ~hasCredentials
       THEN /\ Catch(Err("Error", "Powerdrill User ID and Project API Key are required"),
                    "credentials", 0)
            /\ UNCHANGED initReqs
       ELSE /\ pc' = "init"
            /\ initReqs' = Append(initReqs, [file_name |-> actualFileName, file_size |-> fileSize])
            /\ UNCHANGED outcome
    /\ inflight' = inflight + Issued
    /\ apiRequests' = apiRequests \cup Sent
    /\ UNCHANGED otherHandlers
    /\ UNCHANGED <<inputs, initData, loopState, completeKey, dataSourceId, pollState,
                   completeReqs, createReqs, putResp, completeResp, createResp>>

\* one turn of `for (const part of part_items)` at position i with the part
\* results etags collected so far: read the next part, or, after the last
\* part, issue the completion call
LoopStep(items, i, etags, uid, key) ==
    /\ idx' = i
    /\ partEtags' = etags
    /\ IF i <= Len(items)
       THEN /\ range' = [start |-> StartByte(items[i]), end |-> EndByte(items[i])]
            /\ reads' = Append(reads, [number |-> items[i].number,
                                       start |-> StartByte(items[i]),
                                       end |-> EndByte(items[i])])
            /\ pc' = "read"
            /\ UNCHANGED completeReqs
       ELSE /\ pc' = "complete"
            /\ completeReqs' = Append(completeReqs, [file_object_key |-> key,
                                                     upload_id |-> uid,
                                                     part_etags |-> etags])
            /\ UNCHANGED <<range, reads>>

\* the initiate call resolves or rejects
InitResponse ==
    /\ pc = "init"
    /\ \E resp \in InitResponses :
         /\ initResp' = <<resp>>
         /\ IF resp.throws
            THEN /\ Catch(AxiosError, "init", 0)
                 /\ UNCHANGED <<upload_id, file_object_key, part_items, loopState, completeReqs>>
            ELSE IF InvalidResponse(resp)
            THEN /\ Catch(Err("Error", "Failed to initiate multipart upload"), "init", 0)
                 /\ UNCHANGED <<upload_id, file_object_key, part_items, loopState, completeReqs>>
            ELSE /\ upload_id' = resp.data.upload_id
                 /\ file_object_key' = resp.data.file_object_key
                 /\ part_items' = resp.data.part_items
                 /\ IF ~resp.data.hasParts
                    THEN /\ Catch(Err("TypeError", "part_items is not iterable"), "loop", 0)
                         /\ UNCHANGED <<loopState, completeReqs>>
                    ELSE /\ LoopStep(resp.data.part_items, 1, <<>>,
                                     resp.data.upload_id, resp.data.file_object_key)
                         /\ UNCHANGED <<puts, outcome>>
    /\ inflight' = Settled(inflight) + Issued
    /\ apiRequests' = apiRequests \cup Sent
    /\ UNCHANGED otherHandlers
    /\ UNCHANGED <<inputs, completeKey, dataSourceId, pollState, initReqs, createReqs,
                   putResp, completeResp, createResp>>

\* faulty variant of ReadFailed: the read promise never settles
ReadNeverSettles == pc' = "hung" /\ UNCHANGED outcome

\* readStream.on('error', (err) => reject(err)): the rejection leaves the loop
\* and lands in the handler's catch
ReadFailed == Catch(Err("Error", "read failed"), "read", part_items[idx].number)

\* readFileChunk resolves with the bytes of the range, or rejects
ReadResolved ==
    /\ pc = "read"
    /\ \E ok \in BOOLEAN :
         /\ ok => ValidRange(range)
         /\ IF ok
            THEN /\ pc' = "put"
                 /\ puts' = Append(puts, [number |-> part_items[idx].number,
                                          upload_url |-> part_items[idx].upload_url,
                                          start |-> range.start, end |-> range.end])
                 /\ UNCHANGED outcome
            ELSE /\ ReadFailed
                 /\ UNCHANGED puts
    /\ inflight' = inflight + Issued
    /\ apiRequests' = apiRequests \cup Sent
    /\ UNCHANGED otherHandlers
    /\ UNCHANGED <<inputs, initData, idx, range, partEtags, reads, completeKey,
                   dataSourceId, pollState, initReqs, completeReqs, createReqs,
                   putResp, completeResp, createResp>>

\* faulty variant of PutFailed: the error of the PUT is swallowed, an empty etag is
\* recorded and the loop goes on
PutFailedSwallowed ==
    /\ failure' = <<[step |-> "put", part |-> part_items[idx].number]>>
    /\ LoopStep(part_items, NextIndex(idx),
                Append(partEtags, [number |-> part_items[idx].number, etag |-> <<>>]),
                upload_id, file_object_key)
    /\ UNCHANGED <<results, thrown>>

\* uploadFileChunk's catch: the error of the PUT is logged and rethrown, which
\* leaves the loop and lands in the handler's catch
PutFailed ==
    /\ Catch(AxiosError, "put", part_items[idx].number)
    /\ UNCHANGED <<idx, range, partEtags, reads, completeReqs>>

\* the PUT of the current part resolves or rejects
PutResponse ==
    /\ pc = "put"
    /\ \E resp \in PutResponses :
         /\ putResp' = <<resp>>
         /\ IF resp.throws
            THEN PutFailed
            ELSE /\ LoopStep(part_items, NextIndex(idx),
                             Append(partEtags, [number |-> part_items[idx].number,
                                                etag |-> EtagOf(resp)]),
                             upload_id, file_object_key)
                 /\ UNCHANGED outcome
    /\ inflight' = Settled(inflight) + Issued
    /\ apiRequests' = apiRequests \cup Sent
    /\ UNCHANGED otherHandlers
    /\ UNCHANGED <<inputs, initData, puts, completeKey, dataSourceId, pollState,
                   initReqs, createReqs, completeResp, createResp>>

\* faulty variant of CreateRequest: the object key of the initiation response
CreateRequestInitKey(completeUploadResponse) ==
    [dataset_id |-> dataset_id,
     name |-> actualFileName,
     type |-> "FILE",
     file_object_key |-> file_object_key]

\* client.createDataSource(dataset_id, {name, type, file_object_key}) after the
\* completion response completeUploadResponse
CreateRequest(completeUploadResponse) ==
    [dataset_id |-> dataset_id,
     name |-> actualFileName,
     type |-> "FILE",
     file_object_key |-> completeUploadResponse.file_object_key]

\* the completion call resolves or rejects; on success the create-data-source
\* call is issued
CompleteResponse ==
    /\ pc = "complete"
    /\ \E resp \in CompleteResponses :
         /\ completeResp' = <<resp>>
         /\ IF resp.throws
            THEN Catch(AxiosError, "complete", 0) /\ UNCHANGED <<completeKey, createReqs>>
            ELSE IF InvalidResponse(resp)
            THEN /\ Catch(Err("Error", "Failed to complete multipart upload"), "complete", 0)
                 /\ UNCHANGED <<completeKey, createReqs>>
            ELSE /\ completeKey' = resp.file_object_key
                 /\ createReqs' = Append(createReqs, CreateRequest(resp))
                 /\ pc' = "create"
                 /\ UNCHANGED outcome
    /\ inflight' = Settled(inflight) + Issued
    /\ apiRequests' = apiRequests \cup Sent
    /\ UNCHANGED otherHandlers
    /\ UNCHANGED <<inputs, initData, loopState, dataSourceId, pollState, initReqs,
                   completeReqs, putResp, createResp>>

\* the head of `while (attempts < maxAttempts)` with attempts = a: issue the
\* next status fetch, or leave the loop and throw the timeout error
PollStep(a) ==
    /\ attempts' = a
    /\ IF KeepPolling(a)
       THEN /\ fetches' = fetches + 1
            /\ statusLog' = <<>>
            /\ pc' = "poll"
            /\ UNCHANGED outcome
       ELSE /\ Catch(Err("Error", "Timed out waiting for data source to be synched"), "timeout", 0)
            /\ UNCHANGED <<fetches, statusLog>>

\* the create-data-source call resolves or rejects; on success
\* pollDataSourceStatus starts
CreateResponse ==
    /\ pc = "create"
    /\ \E resp \in CreateResponses :
         /\ createResp' = <<resp>>
         /\ IF resp.throws
            THEN /\ Catch(AxiosError, "create", 0)
                 /\ UNCHANGED <<dataSourceId, attempts, fetches, statusLog>>
            ELSE IF InvalidResponse(resp)
            THEN /\ Catch(Err("Error", "Failed to create data source"), "create", 0)
                 /\ UNCHANGED <<dataSourceId, attempts, fetches, statusLog>>
            ELSE /\ dataSourceId' = resp.id
                 /\ PollStep(0)
    /\ inflight' = Settled(inflight) + Issued
    /\ apiRequests' = apiRequests \cup Sent
    /\ UNCHANGED otherHandlers
    /\ UNCHANGED <<inputs, initData, loopState, completeKey, waits,
                   initReqs, completeReqs, createReqs, putResp, completeResp>>

\* a status fetch resolves or rejects
StatusResponse ==
    /\ pc = "poll"
    /\ \E resp \in StatusResponses :
         /\ statusLog' = <<resp>>
         /\ IF resp.throws
            THEN Catch(AxiosError, "status", 0) /\ UNCHANGED waits
            ELSE IF StatusError(resp)
            THEN /\ Catch(Err("Error", "Error getting data source status"), "status", 0)
                 /\ UNCHANGED waits
            ELSE IF ~resp.hasData
            THEN /\ Catch(Err("TypeError", "Cannot read properties of undefined"), "status", 0)
                 /\ UNCHANGED waits
            ELSE IF IsSynched(resp)
            THEN ReturnSuccess(resp) /\ UNCHANGED waits
            ELSE IF IsInvalid(resp)
            THEN /\ Catch(Err("Error", "Data source processing failed with status: invalid"),
                       "status", 0)
                 /\ UNCHANGED waits
            ELSE /\ pc' = "wait"
                 /\ waits' = waits + 1
                 /\ UNCHANGED outcome
    /\ inflight' = Settled(inflight) + Issued
    /\ apiRequests' = apiRequests \cup Sent
    /\ UNCHANGED otherHandlers
    /\ UNCHANGED <<inputs, initData, loopState, completeKey, dataSourceId, attempts,
                   fetches, initReqs, completeReqs, createReqs, putResp, completeResp,
                   createResp>>

\* the setTimeout of the polling loop fires: attempts++ and back to the loop head
TimerFired ==
    /\ pc = "wait"
    /\ PollStep(attempts + 1)
    /\ inflight' = inflight + Issued
    /\ apiRequests' = apiRequests \cup Sent
    /\ UNCHANGED otherHandlers
    /\ UNCHANGED <<inputs, initData, loopState, completeKey, dataSourceId, waits,
                   initReqs, completeReqs, createReqs, putResp, completeResp,
                   createResp>>

Next ==
    \/ Start
    \/ InitResponse
    \/ ReadResolved
    \/ PutResponse
    \/ CompleteResponse
    \/ CreateResponse
    \/ StatusResponse
    \/ TimerFired

Spec == Init /\ [][Next]_vars

\* every await of the handler eventually resolves or rejects
FairSpec == Spec /\ WF_vars(Next)

\* ==== the list-datasets and create-job tools ================================
MaxRecords == 3
MaxLimit == 3

\* limit: z.number().optional(): no value, or any number
ListCalls ==
    {[NoCall EXCEPT !.tool = "mcp_powerdrill_list_datasets", !.hasLimit = h, !.limit = l] :
        h \in BOOLEAN, l \in (-1)..MaxLimit} \ 
    {[NoCall EXCEPT !.tool = "mcp_powerdrill_list_datasets", !.hasLimit = FALSE, !.limit = l] :
        l \in ((-1)..MaxLimit) \ {0}}

\* the arguments a caller can give or leave out
JobCalls ==
    {[NoCall EXCEPT !.tool = "mcp_powerdrill_create_job", !.question = q,
                    !.dataset_id = d, !.session_id = sid] :
        q \in {Undefined, "why"}, d \in {Undefined, "dset-1"},
        sid \in {Undefined, "session-1"}}

\* the dataset records of the API
Datasets ==
    {[id |-> "ds-a", name |-> "A", description |-> Undefined],
     [id |-> "ds-b", name |-> "B", description |-> "about B"]}

RecordLists == UNION {[1..n -> Datasets] : n \in 0..MaxRecords}

\* what `await client.listDatasets()` can resolve to (the body of the GET) or
\* reject with
ListResponses ==
    {[throws |-> TRUE, code |-> 0, hasRecords |-> FALSE, records |-> <<>>, total_items |-> 0]}
    \cup {[throws |-> FALSE, code |-> c, hasRecords |-> FALSE, records |-> <<>>,
           total_items |-> 0] : c \in {0, 1}}
    \cup {[throws |-> FALSE, code |-> 0, hasRecords |-> TRUE, records |-> recs,
           total_items |-> t] : recs \in RecordLists, t \in {0, MaxRecords + 1}}

\* what `await client.createJob(jobParams)` can resolve to or reject with
JobResponses ==
    {[throws |-> TRUE, code |-> 0, hasData |-> FALSE, hasBlocks |-> FALSE, blocks |-> <<>>]}
    \cup {[throws |-> FALSE, code |-> c, hasData |-> FALSE, hasBlocks |-> FALSE,
           blocks |-> <<>>] : c \in {0, 1}}
    \cup {[throws |-> FALSE, code |-> 0, hasData |-> TRUE, hasBlocks |-> FALSE, blocks |-> <<>>]}
    \cup {[throws |-> FALSE, code |-> 0, hasData |-> TRUE, hasBlocks |-> TRUE, blocks |-> b] :
              b \in {<<>>, <<"TABLE">>, <<"MESSAGE">>, <<"IMAGE", "MESSAGE">>}}

\* faulty variant of Slice: one record too many
SliceOneMore(records, n) == SubSeq(records, 1, Min(n + 1, Len(records)))

\* records.slice(0, n) for n > 0
Slice(records, n) == SubSeq(records, 1, Min(n, Len(records)))

\* if (limit && limit > 0)
LimitApplies(c) == c.hasLimit /\ c.limit # 0 /\ c.limit > 0

\* { id, name, description: dataset.description || '' }
Formatted(dataset) ==
    [id |-> dataset.id,
     name |-> dataset.name,
     description |-> IF Truthy(dataset.description) THEN dataset.description ELSE ""]

\* the error result of a tool's catch block
ToolError(message) ==
    [isError |-> TRUE, message |-> message, count |-> 0, total |-> 0, datasets |-> <<>>]

\* the result of the list-datasets handler for an accepted response
ListResult(c, response) ==
    LET datasets == IF LimitApplies(c) THEN Slice(response.records, c.limit)
                    ELSE response.records
    IN  IF Len(datasets) = 0
        THEN [isError |-> FALSE, message |-> "No datasets found", count |-> 0, total |-> 0,
              datasets |-> <<>>]
        ELSE [isError |-> FALSE,
              message |-> "",
              count |-> Len(datasets),
              total |-> IF response.total_items # 0 THEN response.total_items
                        ELSE Len(datasets),
              datasets |-> [i \in 1..Len(datasets) |-> Formatted(datasets[i])]]

\* the tool's zod schema accepts the arguments: question, dataset_id and
\* session_id are z.string() without .optional()
ValidJobArgs(c) ==
    /\ c.question # Undefined
    /\ c.dataset_id # Undefined
    /\ c.session_id # Undefined

\* the blocks of a job response, TABLE and IMAGE reduced to their url
ProcessedBlocks(blocks) ==
    [i \in 1..Len(blocks) |->
        IF blocks[i] \in {"TABLE", "IMAGE"}
        THEN [type |-> blocks[i], shape |-> "url"]
        ELSE [type |-> blocks[i], shape |-> "content"]]

\* a tool's handler returns result
Return(result) ==
    /\ tpc' = "returned"
    /\ toolResult' = <<result>>

\* mcp_powerdrill_list_datasets up to its request: client construction, then
\* client.listDatasets()
ListDatasetsCall ==
    /\ tpc = "called"
    /\ call.tool = "mcp_powerdrill_list_datasets"
    /\ IF ~hasCredentials
       THEN /\ Return(ToolError("Powerdrill User ID and Project API Key are required"))
            /\ UNCHANGED toolReqs
       ELSE /\ tpc' = "awaiting"
            /\ toolReqs' = Append(toolReqs, [request |-> ApiRequest("GET", "/datasets"),
                                             body |-> NoCall])
            /\ UNCHANGED toolResult
    /\ UNCHANGED <<call, toolResp, uploadVars, pairVars>>

\* client.listDatasets() resolves or rejects
ListDatasetsResponse ==
    /\ tpc = "awaiting"
    /\ call.tool = "mcp_powerdrill_list_datasets"
    /\ \E response \in ListResponses :
         /\ toolResp' = <<response>>
         /\ IF response.throws
            THEN Return(ToolError("Request failed"))
            ELSE IF response.code # 0
            THEN Return(ToolError("API returned error code"))
            ELSE IF ~response.hasRecords
            THEN Return(ToolError("Invalid API response format: missing data.records property"))
            ELSE Return(ListResult(call, response))
    /\ UNCHANGED <<call, toolReqs, uploadVars, pairVars>>

\* mcp_powerdrill_create_job up to its request: the arguments are parsed with
\* the tool's schema, then client construction and client.createJob(jobParams)
CreateJobCall ==
    /\ tpc = "called"
    /\ call.tool = "mcp_powerdrill_create_job"
    /\ IF ~ValidJobArgs(call)
       THEN Return(ToolError("Invalid arguments")) /\ UNCHANGED toolReqs
       ELSE IF ~hasCredentials
       THEN /\ Return(ToolError("Powerdrill User ID and Project API Key are required"))
            /\ UNCHANGED toolReqs
       ELSE /\ tpc' = "awaiting"
            /\ toolReqs' = Append(toolReqs, [request |-> ApiRequest("POST", "/jobs"),
                                             body |-> call])
            /\ UNCHANGED toolResult
    /\ UNCHANGED <<call, toolResp, uploadVars, pairVars>>

\* client.createJob() resolves or rejects
CreateJobResponse ==
    /\ tpc = "awaiting"
    /\ call.tool = "mcp_powerdrill_create_job"
    /\ \E response \in JobResponses :
         /\ toolResp' = <<response>>
         /\ IF response.throws
            THEN Return(ToolError("Request failed"))
            ELSE IF response.code # 0 \/ ~response.hasData
            THEN Return(ToolError("Invalid API response"))
            ELSE IF ~response.hasBlocks
            THEN Return(ToolError("Cannot read properties of undefined"))
            ELSE Return([isError |-> FALSE, message |-> "", count |-> 0, total |-> 0,
                         datasets |-> ProcessedBlocks(response.blocks)])
    /\ UNCHANGED <<call, toolReqs, uploadVars, pairVars>>

\* one of the two tools is invoked
ToolInit ==
    /\ UploadIdle
    /\ PairIdle
    /\ userId \in UserIds
    /\ projectApiKey \in ApiKeys
    /\ call \in ListCalls \cup JobCalls
    /\ tpc = "called"
    /\ toolReqs = <<>>
    /\ toolResp = <<>>
    /\ toolResult = <<>>

ToolNext ==
    \/ ListDatasetsCall
    \/ ListDatasetsResponse
    \/ CreateJobCall
    \/ CreateJobResponse

ToolSpec == ToolInit /\ [][ToolNext]_vars

\* ==== two invocations of the upload handler, interleaved ===================
Invocations == {1, 2}

\* faulty variant of Scope: the variables live at module level
ScopeShared(i) == 1

\* the scope holding the variables of invocation i: the body of the async
\* handler (upload_id, file_object_key, partEtags, dataSourceId and attempts are
\* declared inside it)
Scope(i) == i

NoLocals == [upload_id |-> 0, file_object_key |-> 0, partEtags |-> <<>>,
             dataSourceId |-> 0, attempts |-> 0]

NoneSent == [complete |-> <<>>, polled |-> <<>>]

\* the handler of invocation i is suspended at step
At(i, step) == ipc[i] = step

\* invocation i moves on to await step
Goto(i, step) == ipc' = [ipc EXCEPT ![i] = step]

\* the awaited call of invocation i rejects: the catch returns the error result
PairFails(i) ==
    /\ Goto(i, "done")
    /\ UNCHANGED <<locals, given, sentBy, fresh>>

\* invocation i enters the handler and issues the initiate call
PairStart(i) ==
    /\ UNCHANGED <<uploadVars, toolVars>>
    /\ At(i, "start")
    /\ Goto(i, "init")
    /\ UNCHANGED <<locals, given, sentBy, fresh>>

\* the initiate call of invocation i resolves with a new upload_id and
\* file_object_key: they are destructured, partEtags = [] and the loop issues
\* the first PUT; or it rejects
PairInitResponse(i) ==
    /\ UNCHANGED <<uploadVars, toolVars>>
    /\ At(i, "init")
    /\ \/ PairFails(i)
       \/ /\ fresh' = fresh + 1
          /\ given' = [given EXCEPT ![i].upload_id = fresh', ![i].file_object_key = fresh']
          /\ locals' = [locals EXCEPT ![Scope(i)].upload_id = fresh',
                                      ![Scope(i)].file_object_key = fresh',
                                      ![Scope(i)].partEtags = <<>>]
          /\ Goto(i, "put")
          /\ UNCHANGED sentBy

\* a PUT of invocation i resolves with a new etag, which is pushed to partEtags;
\* the loop issues the next PUT or, after the last part, the completion call
\* with the handler's upload_id, file_object_key and partEtags; or the PUT rejects
PairPutResponse(i) ==
    /\ UNCHANGED <<uploadVars, toolVars>>
    /\ At(i, "put")
    /\ \/ PairFails(i)
       \/ /\ fresh' = fresh + 1
          /\ given' = [given EXCEPT ![i].partEtags = Append(@, fresh')]
          /\ locals' = [locals EXCEPT ![Scope(i)].partEtags = Append(@, fresh')]
          /\ IF Len(given'[i].partEtags) < MaxParts
             THEN Goto(i, "put") /\ UNCHANGED sentBy
             ELSE /\ Goto(i, "complete")
                  /\ sentBy' = [sentBy EXCEPT ![i].complete =
                        <<[upload_id |-> locals'[Scope(i)].upload_id,
                           file_object_key |-> locals'[Scope(i)].file_object_key,
                           part_etags |-> locals'[Scope(i)].partEtags]>>]

\* the completion call of invocation i resolves and the create-data-source
\* call is issued, or it rejects
PairCompleteResponse(i) ==
    /\ UNCHANGED <<uploadVars, toolVars>>
    /\ At(i, "complete")
    /\ \/ PairFails(i)
       \/ /\ Goto(i, "create")
          /\ UNCHANGED <<locals, given, sentBy, fresh>>

\* the status fetch of invocation i for the handler's dataSourceId
PairFetch(i, scopes) == [sentBy EXCEPT ![i].polled = <<scopes[Scope(i)].dataSourceId>>]

\* the create-data-source call of invocation i resolves with a new id, which
\* pollDataSourceStatus starts to poll; or it rejects
PairCreateResponse(i) ==
    /\ UNCHANGED <<uploadVars, toolVars>>
    /\ At(i, "create")
    /\ \/ PairFails(i)
       \/ /\ fresh' = fresh + 1
          /\ given' = [given EXCEPT ![i].dataSourceId = fresh']
          /\ locals' = [locals EXCEPT ![Scope(i)].dataSourceId = fresh',
                                      ![Scope(i)].attempts = 0]
          /\ sentBy' = PairFetch(i, locals')
          /\ Goto(i, "poll")

\* a status fetch of invocation i resolves: terminal (or rejected), or the
\* handler waits, attempts++, and fetches the status of its dataSourceId again
\* while (attempts < maxAttempts)
PairStatusResponse(i) ==
    /\ UNCHANGED <<uploadVars, toolVars>>
    /\ At(i, "poll")
    /\ \/ PairFails(i)
       \/ /\ locals' = [locals EXCEPT ![Scope(i)].attempts = @ + 1]
          /\ IF KeepPolling(locals'[Scope(i)].attempts)
             THEN Goto(i, "poll") /\ sentBy' = PairFetch(i, locals')
             ELSE Goto(i, "done") /\ UNCHANGED sentBy
          /\ UNCHANGED <<given, fresh>>

\* two invocations with the same configuration and existing files
PairInit ==
    /\ UploadIdle
    /\ userId = "user-1"
    /\ projectApiKey = "pk-1"
    /\ ToolIdle
    /\ ipc = [i \in Invocations |-> "start"]
    /\ locals = [i \in Invocations |-> NoLocals]
    /\ given = [i \in Invocations |-> NoLocals]
    /\ sentBy = [i \in Invocations |-> NoneSent]
    /\ fresh = 0

PairNext ==
    \/ \E i \in Invocations : PairStart(i)
    \/ \E i \in Invocations : PairInitResponse(i)
    \/ \E i \in Invocations : PairPutResponse(i)
    \/ \E i \in Invocations : PairCompleteResponse(i)
    \/ \E i \in Invocations : PairCreateResponse(i)
    \/ \E i \in Invocations : PairStatusResponse(i)

PairSpec == PairInit /\ [][PairNext]_vars

\* ==== properties ===========================================================

\* parts numbered 1..n contiguously
Numbered1toN(items) == {items[i].number : i \in 1..Len(items)} = 1..Len(items)

\* how many of the byte ranges in log cover byte b
Covering(log, b) == Cardinality({i \in 1..Len(log) : log[i].start <= b /\ b <= log[i].end})

\* the initiation response has been received and accepted with a part list
PartsAccepted ==
    /\ initResp # <<>>
    /\ ~initResp[1].throws
    /\ ~InvalidResponse(initResp[1])
    /\ initResp[1].data.hasParts
    /\ initResp[1].data.upload_id # Undefined

\* C1: for parts numbered 1..n whose declared sizes sum to the file size, the
\* byte ranges read and PUT (start = (number-1)*chunk_size, end =
\* min(start+size-1, F-1)) tile [0, F): once every part has been uploaded,
\* every byte of the file is covered by exactly one range, for the chunk_size
\* in effect.
C1_RangesTileFile ==
    (/\ pc = "complete"
     /\ chunk_size > 0
     /\ PartsAccepted
     /\ Numbered1toN(part_items)
     /\ SumSizes(part_items) = fileSize)
    => \A b \in 0..(fileSize - 1) : Covering(puts, b) = 1

\* C2: the part_etags sequence sent in the completion call is sorted ascending
\* by part number, whatever the order of part_items in the initiation response.
C2_EtagsSortedAscending ==
    PartsAccepted => \A r \in 1..Len(completeReqs) :
        \A i, j \in 1..Len(completeReqs[r].part_etags) :
            i < j => completeReqs[r].part_etags[i].number < completeReqs[r].part_etags[j].number

\* a status response that carries a data source record
StatusOk(resp) == ~resp.throws /\ resp.code = 0 /\ resp.hasData

\* the last status fetch returned status 'invalid' / 'synched'
SawInvalid == statusLog # <<>> /\ StatusOk(statusLog[1]) /\ statusLog[1].data.status = "invalid"
SawSynched == statusLog # <<>> /\ StatusOk(statusLog[1]) /\ statusLog[1].data.status = "synched"

\* the handler has returned exactly one result, an error whose message is msg
FailedWith(msg) ==
    /\ pc = "done"
    /\ Len(results) = 1
    /\ results[1].isError
    /\ results[1].error[2] = msg

\* C3: a status fetch that returns 'invalid' ends the run at once with the
\* processing-failed error: every earlier fetch was followed by one wait, this
\* one by none, no fetch or wait follows, and the number of fetches never
\* exceeds maxAttempts.
C3_InvalidStopsPolling ==
    /\ [](SawInvalid => /\ FailedWith("Data source processing failed with status: invalid")
                        /\ waits = fetches - 1)
    /\ [](fetches <= maxAttempts)
    /\ [][SawInvalid => (fetches' = fetches /\ waits' = waits)]_vars

C3_Witness == SawInvalid /\ fetches = 3 /\ pc = "done"

\* C4: when every status fetch returned a non-terminal status (each fetch was
\* followed by a wait), the run ends after exactly maxAttempts fetches with
\* the timeout error; no run performs more than maxAttempts fetches.
C4_TimeoutAfterMaxAttempts ==
    /\ fetches <= maxAttempts
    /\ waits <= fetches
    /\ (pc = "done" /\ fetches > 0 /\ waits = fetches)
           => /\ fetches = maxAttempts
              /\ FailedWith("Timed out waiting for data source to be synched")

C4_Witness == pc = "done" /\ fetches = maxAttempts /\ waits = maxAttempts

\* C5: when the k-th status fetch is the first to return 'synched' (the k-1
\* earlier ones were each followed by a wait), the run succeeds with the record
\* of that fetch after exactly k fetches, and no fetch follows.
C5_SynchedReturnsThatRecord ==
    /\ [](SawSynched => /\ pc = "done"
                        /\ Len(results) = 1
                        /\ ~results[1].isError
                        /\ results[1].data_source.name = statusLog[1].data.name
                        /\ results[1].data_source.type = statusLog[1].data.type
                        /\ results[1].data_source.size = statusLog[1].data.size
                        /\ results[1].data_source.status = "synched"
                        /\ fetches = waits + 1
                        /\ fetches = attempts + 1)
    /\ [][SawSynched => (fetches' = fetches /\ waits' = waits)]_vars

C5_Witness == SawSynched /\ fetches = 5 /\ pc = "done" /\ ~results[1].isError

\* the initiation response indicates an error, carries no data or omits a
\* required field
BadInitiation ==
    /\ initResp # <<>>
    /\ ~initResp[1].throws
    /\ \/ InvalidResponse(initResp[1])
       \/ ~initResp[1].data.hasParts
       \/ initResp[1].data.upload_id = Undefined

\* C6: an initiation response that indicates an error, carries no data or
\* omits a required field makes the run fail with the upload-initiation
\* failure, and no part is PUT.
C6_BadInitiationFails ==
    (BadInitiation /\ pc = "done")
        => /\ FailedWith("Failed to initiate multipart upload")
           /\ puts = <<>>

\* the read or the PUT of a part failed
PartFailed == failure # <<>> /\ failure[1].step \in {"read", "put"}

\* C7: when the read or the PUT of a part fails the run ends with an error:
\* the failed part was read once and PUT at most once, only the parts up to
\* it were touched, and no completion call, create-data-source call or status
\* fetch is made, then or later.
C7_PartFailureAborts ==
    /\ [](PartFailed =>
            /\ pc = "done"
            /\ Len(results) = 1
            /\ results[1].isError
            /\ Len(reads) = idx
            /\ Len(puts) <= idx
            /\ \A i \in 1..Len(reads) : reads[i].number = part_items[i].number
            /\ \A i \in 1..Len(puts) : puts[i].number = part_items[i].number
            /\ part_items[idx].number = failure[1].part
            /\ completeReqs = <<>>
            /\ createReqs = <<>>
            /\ fetches = 0)
    /\ [][PartFailed => UNCHANGED <<reads, puts, completeReqs, createReqs, fetches>>]_vars

C7_Witness ==
    PartFailed /\ failure[1].step = "put" /\ idx = 1 /\ Len(part_items) = 2 /\ pc = "done"

\* the error result names part number n
Mentions(result, n) == \E i \in 1..Len(result.error) : result.error[i] = ToString(n)

C9_SuccessOnlyWhenSynched ==
    /\ \A i \in 1..Len(results) :
          ~results[i].isError =>
              /\ SawSynched
              /\ results[i].data_source.status = "synched"
              /\ results[i].data_source.name = statusLog[1].data.name
              /\ results[i].data_source.type = statusLog[1].data.type
              /\ results[i].data_source.size = statusLog[1].data.size
    /\ (pc = "done" /\ ~SawSynched) => (Len(results) = 1 /\ results[1].isError)

C9_Witness ==
    /\ pc = "done"
    /\ Len(results) = 1
    /\ ~results[1].isError
    /\ results[1].data_source.name = "renamed.csv"

\* C10: every failure inside the handler is surfaced as exactly one result
\* with isError = true; nothing escapes the handler, and it never returns
\* more than one result.
C10_FailuresBecomeErrorResults ==
    /\ thrown = FALSE
    /\ Len(results) <= 1
    /\ failure # <<>> => (pc = "done" /\ Len(results) = 1 /\ results[1].isError)
    /\ pc = "done" => Len(results) = 1

C10_Witness ==
    /\ failure # <<>>
    /\ failure[1].step = "timeout"
    /\ Len(results) = 1
    /\ results[1].isError

\* the initiation response was accepted and lists n >= 1 parts numbered 1..n in
\* order, all but the last of size chunk_size, the last of size
\* F - (n-1)*chunk_size
RegularParts ==
    /\ initResp # <<>>
    /\ ~initResp[1].throws
    /\ initResp[1].code = 0
    /\ initResp[1].hasData
    /\ initResp[1].data.hasParts
    /\ Len(part_items) >= 1
    /\ \A k \in 1..Len(part_items) :
          /\ part_items[k].number = k
          /\ part_items[k].size = (IF k < Len(part_items)
                                   THEN chunk_size
                                   ELSE fileSize - (Len(part_items) - 1) * chunk_size)

\* the PUT calls issued so far carry bytes [(k-1)*chunk_size, min(k*chunk_size, F)-1],
\* and all n of them have been issued once the completion call is made
ChunkRanges ==
    /\ Len(puts) <= Len(part_items)
    /\ \A k \in 1..Len(puts) :
          /\ puts[k].start = (k - 1) * chunk_size
          /\ puts[k].end = Min(k * chunk_size, fileSize) - 1
    /\ completeReqs # <<>> => Len(puts) = Len(part_items)

\* C11 (as claimed): for parts 1..n listed in order, all but the last of size
\* chunk_size and the last of size F-(n-1)*chunk_size, exactly n PUT calls are
\* issued and the k-th carries bytes [(k-1)*chunk_size, min(k*chunk_size, F)-1].
C11_RegularPartsChunkRanges == RegularParts => ChunkRanges

\* C11 (amended): the same, for a positive chunk_size and a last part no larger
\* than chunk_size.
C11_RegularPartsWithinChunk ==
    (/\ RegularParts
     /\ chunk_size > 0
     /\ part_items[Len(part_items)].size <= chunk_size) => ChunkRanges

C11_Witness ==
    /\ RegularParts
    /\ chunk_size = 2
    /\ fileSize = 3
    /\ Len(puts) = 2
    /\ completeReqs # <<>>

\* s holds no quote character
NoQuote(s) == \A i \in 1..Len(s) : s[i] # Quote

\* C12: no etag of a part result, stored or sent in the completion call, holds
\* a quote character; the etag stored for a PUT response whose ETag header is
\* quoted is the header without its surrounding quotes, and for an unquoted
\* header the header itself.
C12_EtagsWithoutQuotes ==
    /\ \A i \in 1..Len(partEtags) : NoQuote(partEtags[i].etag)
    /\ \A r \in 1..Len(completeReqs) :
          \A i \in 1..Len(completeReqs[r].part_etags) :
              NoQuote(completeReqs[r].part_etags[i].etag)
    /\ (putResp # <<>> /\ ~putResp[1].throws /\ putResp[1].hasEtag) =>
          /\ Len(partEtags) >= 1
          /\ IF Head(putResp[1].etag) = Quote
             THEN putResp[1].etag = <<Quote>> \o partEtags[Len(partEtags)].etag \o <<Quote>>
             ELSE putResp[1].etag = partEtags[Len(partEtags)].etag

C12_Witness ==
    /\ putResp # <<>>
    /\ ~putResp[1].throws
    /\ putResp[1].hasEtag
    /\ Head(putResp[1].etag) = Quote
    /\ Len(partEtags) = 2
    /\ completeReqs # <<>>

\* C13: when file_path names no existing file the run fails with the
\* file-not-found error and no remote request is ever issued.
C13_MissingFileNoRequest ==
    ~fileExists =>
        /\ pc \in {"start", "done"}
        /\ pc = "done" => FailedWith("File not found")
        /\ initReqs = <<>>
        /\ puts = <<>>
        /\ completeReqs = <<>>
        /\ createReqs = <<>>
        /\ fetches = 0
        /\ inflight = 0

C13_Witness == ~fileExists /\ pc = "done" /\ Len(results) = 1 /\ ~hasCredentials

\* the response recorded in log resolved with code 0 and a data field
Accepted(log) ==
    /\ log # <<>>
    /\ ~log[1].throws
    /\ log[1].code = 0
    /\ log[1].hasData

\* a response was recorded in log and it was not an accepted one
Refused(log) == log # <<>> /\ ~Accepted(log)

\* the run has ended with an error result
EndedInError == pc = "done" /\ Len(results) = 1 /\ results[1].isError

\* C14: the steps run in a fixed order. The completion call is made only after
\* every part has been PUT successfully, the create-data-source call only after
\* a completion response with code 0 and data, the first status fetch only
\* after a create response with code 0 and data; an invalid completion response
\* means no data source is created, an invalid creation response means no
\* status is fetched.
C14_StepsInFixedOrder ==
    /\ Len(completeReqs) <= 1
    /\ Len(createReqs) <= 1
    /\ completeReqs # <<>> =>
          /\ Accepted(initResp)
          /\ Len(puts) = Len(part_items)
          /\ Len(partEtags) = Len(part_items)
          /\ \A i \in 1..Len(part_items) :
                puts[i].upload_url = part_items[i].upload_url
    /\ createReqs # <<>> => completeReqs # <<>> /\ Accepted(completeResp)
    /\ fetches > 0 => createReqs # <<>> /\ Accepted(createResp)
    /\ Refused(completeResp) => EndedInError /\ createReqs = <<>> /\ fetches = 0
    /\ Refused(createResp) => EndedInError /\ fetches = 0

C14_Witness ==
    /\ Len(puts) = 2
    /\ completeResp # <<>>
    /\ ~completeResp[1].throws
    /\ completeResp[1].code = 0
    /\ ~completeResp[1].hasData
    /\ EndedInError

\* C15: at most one remote request is in flight at any time; no two part PUTs
\* overlap and no two status fetches overlap.
C15_OneRequestInFlight ==
    /\ inflight \in {0, 1}
    /\ Len(puts) <= Len(partEtags) + 1
    /\ fetches <= waits + 1
    /\ pc = "put" => inflight = 1 /\ Len(puts) = Len(partEtags) + 1
    /\ pc = "poll" => inflight = 1 /\ fetches = waits + 1

C15_Witness ==
    /\ pc = "poll"
    /\ inflight = 1
    /\ Len(puts) = 2
    /\ fetches = 2

\* C16: provided every remote call and file read eventually resolves or fails,
\* every run eventually ends, with a success payload or an error result.
C16_EveryRunTerminates == <>(pc = "done" /\ Len(results) = 1)

C16_Witness ==
    /\ pc = "done"
    /\ Len(results) = 1
    /\ fetches = maxAttempts
    /\ Len(puts) = 2

\* how many PUT calls were sent to the upload_url url
PutCount(url) == Cardinality({j \in 1..Len(puts) : puts[j].upload_url = url})

\* the run has ended with the success payload
EndedInSuccess == pc = "done" /\ Len(results) = 1 /\ ~results[1].isError

\* C17: the upload_url of each part descriptor is PUT at most once, and exactly
\* once in a successful run; the completion call carries exactly one part
\* result per descriptor, with that descriptor's number.
C17_EachPartPutOnce ==
    /\ \A i \in 1..Len(part_items) : PutCount(part_items[i].upload_url) <= 1
    /\ EndedInSuccess =>
          \A i \in 1..Len(part_items) : PutCount(part_items[i].upload_url) = 1
    /\ \A r \in 1..Len(completeReqs) :
          /\ Len(completeReqs[r].part_etags) = Len(part_items)
          /\ \A i \in 1..Len(part_items) :
                completeReqs[r].part_etags[i].number = part_items[i].number

C17_Witness ==
    /\ EndedInSuccess
    /\ Len(part_items) = 2
    /\ part_items[1].number = 2

\* C18: the create-data-source call is made under the caller's dataset_id, with
\* type 'FILE', the resolved file name as name and the file_object_key of the
\* completion response.
C18_CreateCallFields ==
    \A r \in 1..Len(createReqs) :
        /\ createReqs[r].dataset_id = dataset_id
        /\ createReqs[r].type = "FILE"
        /\ createReqs[r].name = (IF file_name \in {Undefined, ""}
                                 THEN "data.csv" ELSE file_name)
        /\ completeResp # <<>>
        /\ createReqs[r].file_object_key = completeResp[1].file_object_key

C18_Witness ==
    /\ createReqs # <<>>
    /\ completeResp # <<>>
    /\ completeResp[1].file_object_key = "key-2"
    /\ file_object_key = "key-1"
    /\ file_name = "custom.csv"

\* C19: chunk_size must be a positive integer: a run given a zero or negative
\* chunk_size is rejected and never issues a part PUT with byte offsets
\* computed from it.
C19_NonPositiveChunkSizeRejected ==
    chunk_size <= 0 =>
        /\ puts = <<>>
        /\ pc = "done" => EndedInError

\* the name expected in the initiation call, the create-data-source call and
\* the success payload
NameSentEverywhere(expected) ==
    /\ \A r \in 1..Len(initReqs) : initReqs[r].file_name = expected
    /\ \A r \in 1..Len(createReqs) : createReqs[r].name = expected
    /\ EndedInSuccess => results[1].file.name = expected

\* C20 (as claimed): the resolved file name is file_name when the caller gives
\* one and the base name of file_path otherwise, and that same name is sent in
\* the initiation call, in the create-data-source call and as file.name of the
\* success payload.
C20_GivenFileNameIsUsed ==
    NameSentEverywhere(IF file_name # Undefined THEN file_name ELSE "data.csv")

\* C20 (amended): the resolved file name is file_name when the caller gives a
\* non-empty one and the base name of file_path otherwise, an empty file_name
\* included; that same name is sent in all three places.
C20_NonEmptyFileNameIsUsed ==
    NameSentEverywhere(IF file_name # Undefined /\ file_name # ""
                       THEN file_name ELSE "data.csv")

C20_Witness ==
    /\ EndedInSuccess
    /\ file_name = ""
    /\ results[1].file.name = "data.csv"
    /\ createReqs # <<>>

\* C30: a PowerdrillClient is constructed only when both the user id and the
\* project API key are non-empty, so every request sent to the API carries the
\* x-pd-api-key header and the configured user_id (in the query of a GET, in
\* the body of a POST); when either credential is missing the run returns an
\* error result and sends no request.
C30_RequestsCarryCredentials ==
    /\ \A r \in apiRequests :
          /\ r.x_pd_api_key # ""
          /\ r.x_pd_api_key = projectApiKey
          /\ r.user_id # ""
          /\ r.user_id = userId
          /\ r.user_id_in = (IF r.method = "GET" THEN "query" ELSE "body")
    /\ (userId = "" \/ projectApiKey = "") =>
          /\ apiRequests = {}
          /\ initReqs = <<>>
          /\ puts = <<>>
          /\ fetches = 0
          /\ inflight = 0
          /\ pc = "done" => EndedInError

C30_Witness ==
    /\ fileExists
    /\ userId = "user-1"
    /\ projectApiKey = ""
    /\ FailedWith("Powerdrill User ID and Project API Key are required")
    /\ apiRequests = {}

\* the last status response carried a record whose status is neither 'synched'
\* nor 'invalid'
LastStatusNonTerminal ==
    /\ statusLog # <<>>
    /\ ~statusLog[1].throws
    /\ statusLog[1].code = 0
    /\ statusLog[1].hasData
    /\ statusLog[1].data.status \notin {"synched", "invalid"}

\* C24: for every status other than 'synched' and 'invalid' ('synching', an
\* unknown value, a missing status) the poller waits one interval and then
\* fetches the status again, unless that was the maxAttempts-th fetch, in which
\* case it times out; the only request it sends about the data source is the
\* GET of its status.
C24_OtherStatusesAreNonTerminal ==
    /\ LastStatusNonTerminal =>
          \/ pc = "wait" /\ waits = fetches /\ results = <<>>
          \/ /\ pc = "done"
             /\ FailedWith("Timed out waiting for data source to be synched")
             /\ fetches = maxAttempts
             /\ waits = maxAttempts
    /\ pc = "poll" =>
          /\ fetches = waits + 1
          /\ fetches <= maxAttempts
          /\ results = <<>>
    /\ \A r \in apiRequests :
          r.path = "/datasets/{id}/datasources/{id}" => r.method = "GET"

C24_Witness ==
    /\ LastStatusNonTerminal
    /\ statusLog[1].data.status = "queued"
    /\ pc = "wait"
    /\ fetches = 3

\* the last status response resolved with a code other than 0
LastStatusErrorCode ==
    /\ statusLog # <<>>
    /\ ~statusLog[1].throws
    /\ statusLog[1].code # 0

\* C25: a status response whose code is not 0 ends the run at once with an
\* error: no wait follows that fetch and no further status fetch is made,
\* however many attempts remain.
C25_StatusErrorCodeFailsAtOnce ==
    LastStatusErrorCode =>
        /\ EndedInError
        /\ waits = fetches - 1
        /\ fetches = attempts + 1
        /\ inflight = 0

C25_Witness ==
    /\ LastStatusErrorCode
    /\ statusLog[1].hasData
    /\ EndedInError
    /\ fetches = 2

\* C26: every byte range handed to the file reader for a part satisfies
\* 0 <= start <= end <= fileSize - 1, for every file size, chunk_size and part
\* list.
C26_ReadRangesInsideFile ==
    \A i \in 1..Len(reads) :
        /\ 0 <= reads[i].start
        /\ reads[i].start <= reads[i].end
        /\ reads[i].end <= fileSize - 1

\* C27: in a successful run the object_key of the success payload's file
\* section is the file_object_key sent in the create-data-source call.
C27_PayloadKeyIsCreateKey ==
    EndedInSuccess =>
        /\ createReqs # <<>>
        /\ results[1].file.object_key = createReqs[1].file_object_key

\* the step sends no request of any kind and leaves none in flight
NoRequestIssued ==
    /\ initReqs' = initReqs
    /\ puts' = puts
    /\ completeReqs' = completeReqs
    /\ createReqs' = createReqs
    /\ fetches' = fetches
    /\ apiRequests' = apiRequests
    /\ inflight' = 0

\* C28: the step in which any part of the workflow fails returns the error
\* result without sending a further request (no abort or clean-up call), and
\* nothing happens after the result has been returned.
C28_NoRequestAfterFailure ==
    [][/\ pc # "done"
       /\ (pc' = "done" /\ Len(results') = 1 /\ results'[1].isError) => NoRequestIssued]_vars

C28_Witness ==
    /\ EndedInError
    /\ failure = <<[step |-> "create", part |-> 0]>>
    /\ Len(puts) = 2
    /\ Cardinality(apiRequests) = 3

\* the last PUT response resolved without an ETag header
LastPutWithoutEtag ==
    /\ putResp # <<>>
    /\ ~putResp[1].throws
    /\ ~putResp[1].hasEtag

\* C29: a PUT that succeeds without an ETag header yields a part result with
\* an empty etag for that part, and the run goes on with the next part or, after
\* the last part, with the completion call carrying that part result.
C29_MissingEtagIsEmptyString ==
    LastPutWithoutEtag =>
        /\ Len(partEtags) >= 1
        /\ partEtags[Len(partEtags)] =
              [number |-> part_items[Len(partEtags)].number, etag |-> <<>>]
        /\ failure # <<>> => failure[1].step # "put"
        /\ IF Len(partEtags) < Len(part_items)
           THEN Len(reads) = Len(partEtags) + 1 /\ completeReqs = <<>>
           ELSE /\ Len(completeReqs) = 1
                /\ completeReqs[1].part_etags = partEtags

C29_Witness ==
    /\ LastPutWithoutEtag
    /\ Len(partEtags) = 2
    /\ partEtags[1].etag = <<"e">>
    /\ completeReqs # <<>>

\* C22: mcp_powerdrill_list_datasets called with a limit L > 0 returns at most
\* L datasets, the first min(L, n) of the n records of the API response in
\* their original order; called without a limit it returns all n records.
C22_LimitReturnsFirstRecords ==
    (/\ call.tool = "mcp_powerdrill_list_datasets"
     /\ tpc = "returned"
     /\ ~toolResult[1].isError) =>
        LET records == toolResp[1].records
            out == toolResult[1].datasets
        IN  /\ (call.hasLimit /\ call.limit > 0) =>
                  /\ Len(out) <= call.limit
                  /\ Len(out) = Min(call.limit, Len(records))
            /\ ~call.hasLimit => Len(out) = Len(records)
            /\ (~call.hasLimit \/ call.limit > 0) =>
                  \A i \in 1..Len(out) :
                      /\ out[i].id = records[i].id
                      /\ out[i].name = records[i].name

C22_Witness ==
    /\ call.tool = "mcp_powerdrill_list_datasets"
    /\ call.hasLimit
    /\ call.limit = 2
    /\ tpc = "returned"
    /\ ~toolResult[1].isError
    /\ Len(toolResp[1].records) = 3
    /\ toolResp[1].records[1].id # toolResp[1].records[2].id
    /\ Len(toolResult[1].datasets) = 2

\* C23: mcp_powerdrill_create_job treats session_id as optional: a call that
\* gives question and dataset_id passes parameter validation and leads to a
\* job-creation request, with or without session_id.
C23_SessionIdIsOptional ==
    (/\ call.tool = "mcp_powerdrill_create_job"
     /\ call.question # Undefined
     /\ call.dataset_id # Undefined
     /\ userId # ""
     /\ projectApiKey # ""
     /\ tpc # "called") =>
        /\ toolReqs # <<>>
        /\ toolReqs[1].request.path = "/jobs"

\* C21: two invocations running interleaved share no state: the upload_id,
\* file_object_key and part results an invocation sends in its completion call,
\* and the data source id it polls, are those the remote API handed to that
\* same invocation, for every interleaving of their awaits.
C21_InvocationsShareNoState ==
    \A i \in Invocations :
        /\ sentBy[i].complete # <<>> =>
              /\ sentBy[i].complete[1].upload_id = given[i].upload_id
              /\ sentBy[i].complete[1].file_object_key = given[i].file_object_key
              /\ sentBy[i].complete[1].part_etags = given[i].partEtags
        /\ sentBy[i].polled # <<>> =>
              sentBy[i].polled[1] = given[i].dataSourceId

C21_Witness ==
    /\ ipc[1] = "poll"
    /\ ipc[2] = "poll"
    /\ given[2].upload_id < given[1].upload_id
    /\ given[1].partEtags[1] < given[2].partEtags[1]
    /\ given[2].dataSourceId < given[1].dataSourceId
    /\ locals[1].attempts = 2

====
